---------------------------- MODULE Spec2Model ----------------------------
(***************************************************************************)
(* Model of the oven-log evaluation scripts src/main.py and                *)
(* src/dashboard_app.py: the phase extraction loop (preheat / program-run  *)
(* intervals per row_name), the 22:00-22:00 cycle window and the remap of  *)
(* timestamps into it, the display order of the row names, and the         *)
(* control flow of a run from column resolution to rendering.              *)
(***************************************************************************)
EXTENDS Integers, Sequences, FiniteSets, TLC

\* ------------------------------------------------------------------------
\* Bounds of the model
\* ------------------------------------------------------------------------

\* Rows iterated by the extraction loop, over all groups together.
MaxRows == 2

\* Calendar days the timestamps of a data set fall on: 1..MaxDay.
MaxDay == 2

\* Distinct row names handed to sorted().
MaxNames == 2

\* Data rows of the CSV file.
MaxCsvRows == 2

\* Rows of the frame that is sorted, grouped, extracted from and drawn.
MaxFrameRows == 2

\* Rows of the one unit whose sequence is followed on its own.
MaxUnitRows == 4

\* Resolution of a timestamp below the hour (its minute, second and
\* microsecond taken together): TicksPerHour steps per hour.
TicksPerHour == 2

\* ------------------------------------------------------------------------
\* Values
\* ------------------------------------------------------------------------

\* Python's None. Timestamps and program labels of the model are >= 1.
None == 0

\* The keys df.groupby("row_name") iterates, in its (sorted) key order.
RowNames == <<"Ofen (1)", "Ofen (2)">>

\* prog_num labels: n stands for the string "P<n>".
ProgLabels == {1, 2}

Max(S) == CHOOSE x \in S : \A y \in S : y <= x

Min(S) == CHOOSE x \in S : \A y \in S : x <= y

VARIABLES
    \* --- phase extraction loop ---
    name,       \* index into RowNames of the group being iterated, 0 before the loop
    ev,         \* ev[n]: the rows of group n that iterrows() has yielded so far
    t_load,     \* pending load timestamp, or None
    t_start,    \* pending start timestamp, or None
    prog_num,   \* pending program label, or None
    preheats,   \* list of <<name, t_load, t>>
    runs,       \* list of <<name, t_start, t, prog_num>>
    \* --- cycle window and remap ---
    cpc,                    \* "start", "window", "remapped", "twice"
    earliest_timestamp,     \* df["timestamp"].min()
    cycle_start,
    cycle_end,
    cycle_start_date_only,
    ts_in,                  \* a timestamp handed to adjust_timestamp_to_cycle
    ts_adj,                 \* its remap
    ts_adj2,                \* the remap of the remap
    \* --- display order ---
    opc,                    \* "unsorted", "sorted"
    row_names,              \* df["row_name"].unique()
    all_names,              \* sorted(row_names, key=smart_sort_key)
    \* --- one run of a script ---
    script,                 \* "main" or "dashboard_app"
    rpc,                    \* the step the run is at, "failed" or "done" at its end
    columns,                \* df.columns after the CSV is read
    cells,                  \* the time column's cells, row by row
    df,                     \* the parsed timestamps of the rows kept, ascending
    error,                  \* the error the run failed with
    normalized,             \* the rows carry row_name, flags and prog_num
    extracted,              \* the extraction loop has run
    rows_fed,               \* rows the extraction loop has iterated
    rendered,               \* the charts were drawn
    \* --- from the sorted frame to the charts ---
    ppc,                    \* "sort", "extract", "window", "render", "done"
    raw,                    \* the rows with a timestamp, in file order
    sdf,                    \* df after sort_values("timestamp")
    rname,                  \* names of all_names the chart loop has been through
    charts                  \* what was drawn, one entry per chart

extVars == <<name, ev, t_load, t_start, prog_num, preheats, runs>>

cycVars == <<cpc, earliest_timestamp, cycle_start, cycle_end,
             cycle_start_date_only, ts_in, ts_adj, ts_adj2>>

ordVars == <<opc, row_names, all_names>>

runVars == <<script, rpc, columns, cells, df, error, normalized, extracted, rows_fed, rendered>>

pipeVars == <<ppc, raw, sdf, rname, charts>>

vars == <<extVars, cycVars, ordVars, runVars, pipeVars>>

\* ------------------------------------------------------------------------
\* Phase extraction loop (main.py 134-155, dashboard_app.py 139-159)
\* ------------------------------------------------------------------------

\* One row of a group g, as the loop reads it: r["timestamp"], r["is_loaded"],
\* r["is_started"], r["is_ended"], r["prog_num"]. The three flags are
\* independent str.contains columns, so a row may carry several of them.
Rows(last) ==
    [timestamp : {last, last + 1},
     is_loaded : BOOLEAN, is_started : BOOLEAN, is_ended : BOOLEAN,
     prog_num : {None} \cup ProgLabels]

\* g = g.sort_values("timestamp"): the next row is never earlier than the last.
LastTimestamp(g) == IF g = <<>> THEN 1 ELSE g[Len(g)].timestamp

\* The loop-carried state as one record.
Pending == [t_load |-> t_load, t_start |-> t_start, prog_num |-> prog_num,
            preheats |-> preheats, runs |-> runs]

\* Mutant of ResetPending: t_start and prog_num survive the change of group.
ResetLoadOnly(st) == [st EXCEPT !.t_load = None]

\* t_load = t_start = prog_num = None
ResetPending(st) ==
    [st EXCEPT !.t_load = None, !.t_start = None, !.prog_num = None]

\* Mutant of OnProgNum: the first label seen wins.
OnProgNumFirstWins(st, r) ==
    IF r.prog_num # None /\ st.prog_num = None
    THEN [st EXCEPT !.prog_num = r.prog_num] ELSE st

\* if r["prog_num"]: prog_num = r["prog_num"]
OnProgNum(st, r) ==
    IF r.prog_num # None THEN [st EXCEPT !.prog_num = r.prog_num] ELSE st

\* if r["is_loaded"]: t_load = t
OnLoaded(st, r) ==
    IF r.is_loaded THEN [st EXCEPT !.t_load = r.timestamp] ELSE st

\* if r["is_started"]: (if t_load: append preheat, t_load = None); t_start = t
OnStarted(st, r, n) ==
    IF r.is_started
    THEN IF st.t_load # None
         THEN [st EXCEPT !.preheats = Append(@, <<n, st.t_load, r.timestamp>>),
                         !.t_load = None,
                         !.t_start = r.timestamp]
         ELSE [st EXCEPT !.t_start = r.timestamp]
    ELSE st

\* Mutant of OnEnded: t_start is not cleared when the run is appended.
OnEndedKeepStart(st, r, n) ==
    IF r.is_ended /\ st.t_start # None
    THEN [st EXCEPT !.runs = Append(@, <<n, st.t_start, r.timestamp, st.prog_num>>),
                    !.prog_num = None]
    ELSE st

\* if r["is_ended"] and t_start: append run, t_start = None, prog_num = None
OnEnded(st, r, n) ==
    IF r.is_ended /\ st.t_start # None
    THEN [st EXCEPT !.runs = Append(@, <<n, st.t_start, r.timestamp, st.prog_num>>),
                    !.t_start = None,
                    !.prog_num = None]
    ELSE st

\* The body of "for _, r in g.iterrows()".
ProcessRow(st, r, n) ==
    OnEnded(OnStarted(OnLoaded(OnProgNum(st, r), r), r, n), r, n)

TotalRows == Len(ev[1]) + Len(ev[2])

SetPending(st) ==
    /\ t_load' = st.t_load
    /\ t_start' = st.t_start
    /\ prog_num' = st.prog_num
    /\ preheats' = st.preheats
    /\ runs' = st.runs

\* "for name, g in df.groupby("row_name")": the next group starts. A group of
\* groupby holds at least one row, so the previous one has yielded a row and
\* one more row is still to come.
NextGroup ==
    /\ name < Len(RowNames)
    /\ name # 0 => Len(ev[name]) >= 1
    /\ TotalRows < MaxRows
    /\ name' = name + 1
    /\ SetPending(ResetPending(Pending))
    /\ UNCHANGED ev
    /\ UNCHANGED <<cycVars, ordVars, runVars, pipeVars>>

\* iterrows() yields the next row of the current group and the body runs.
IterRow ==
    /\ name >= 1
    /\ TotalRows < MaxRows
    /\ \E r \in Rows(LastTimestamp(ev[name])) :
          /\ ev' = [ev EXCEPT ![name] = Append(@, r)]
          /\ SetPending(ProcessRow(Pending, r, RowNames[name]))
    /\ UNCHANGED name
    /\ UNCHANGED <<cycVars, ordVars, runVars, pipeVars>>

\* The rows of one unit, program numbers left aside.
UnitRows(last) == {r \in Rows(last) : r.prog_num = None}

\* iterrows() on the first group alone, followed for MaxUnitRows rows.
IterRowOfUnit ==
    /\ name = 1
    /\ Len(ev[name]) < MaxUnitRows
    /\ \E r \in UnitRows(LastTimestamp(ev[name])) :
          /\ ev' = [ev EXCEPT ![name] = Append(@, r)]
          /\ SetPending(ProcessRow(Pending, r, RowNames[name]))
    /\ UNCHANGED name
    /\ UNCHANGED <<cycVars, ordVars, runVars, pipeVars>>

\* ------------------------------------------------------------------------
\* Cycle window (main.py 162-180, dashboard_app.py 202-211) and remap
\* (main.py 224-234, dashboard_app.py 185-193, 211)
\* ------------------------------------------------------------------------

\* pd.Timedelta(hours=24) counts 24 hours; a calendar day has as many.
HoursPerDay == 24

\* The hour of day at which a cycle begins.
CycleHour == 22

TicksPerDay == HoursPerDay * TicksPerHour

\* A timestamp is a count of ticks; its calendar date, hour and the rest
\* (minute, second, microsecond) are read off it.
DateOf(ts) == ts \div TicksPerDay
HourOf(ts) == (ts % TicksPerDay) \div TicksPerHour
RestOf(ts) == ts % TicksPerHour
MakeTimestamp(date, hour, rest) == date * TicksPerDay + hour * TicksPerHour + rest

\* The timestamps a data set may hold.
Timestamps == TicksPerDay .. ((MaxDay + 1) * TicksPerDay - 1)

\* pd.Timedelta(days=n), pd.Timedelta(hours=n)
TimedeltaDays(n) == n * TicksPerDay
TimedeltaHours(n) == n * TicksPerHour

\* earliest_timestamp.replace(hour=22, minute=0, second=0, microsecond=0)
StartTimeBase(t0) == MakeTimestamp(DateOf(t0), CycleHour, 0)

\* Mutant of CycleStart: "<=" for "<".
CycleStartAtOrBefore(t0) ==
    IF HourOf(t0) <= CycleHour
    THEN StartTimeBase(t0) - TimedeltaDays(1)
    ELSE StartTimeBase(t0)

\* if earliest_timestamp.hour < 22: start_time_base - 1 day, else start_time_base
CycleStart(t0) ==
    IF HourOf(t0) < CycleHour
    THEN StartTimeBase(t0) - TimedeltaDays(1)
    ELSE StartTimeBase(t0)

\* cycle_end = cycle_start + pd.Timedelta(hours=24)
CycleEnd(cs) == cs + TimedeltaHours(HoursPerDay)

\* cycle_start.normalize()
Normalize(ts) == MakeTimestamp(DateOf(ts), 0, 0)

\* ts.replace(year=d.year, month=d.month, day=d.day)
ReplaceDate(ts, d) == MakeTimestamp(DateOf(d), HourOf(ts), RestOf(ts))

\* Mutant of adjust_timestamp_to_cycle: ">" for ">=".
AdjustStrictlyAfter(ts, cycle_start_date) ==
    IF HourOf(ts) > CycleHour
    THEN ReplaceDate(ts, cycle_start_date)
    ELSE ReplaceDate(ts, cycle_start_date + TimedeltaDays(1))

\* Mutant of adjust_timestamp_to_cycle: below 22:00 the timestamp is moved
\* one day on instead of onto the day after the cycle's start date.
AdjustByShift(ts, cycle_start_date) ==
    IF HourOf(ts) >= CycleHour
    THEN ReplaceDate(ts, cycle_start_date)
    ELSE ts + TimedeltaDays(1)

adjust_timestamp_to_cycle(ts, cycle_start_date) ==
    IF HourOf(ts) >= CycleHour
    THEN ReplaceDate(ts, cycle_start_date)
    ELSE ReplaceDate(ts, cycle_start_date + TimedeltaDays(1))

\* Section 4.5 of both scripts.
ComputeCycleWindow ==
    /\ cpc = "start"
    /\ cpc' = "window"
    /\ cycle_start' = CycleStart(earliest_timestamp)
    /\ cycle_end' = CycleEnd(cycle_start')
    /\ cycle_start_date_only' = Normalize(cycle_start')
    /\ UNCHANGED <<earliest_timestamp, ts_in, ts_adj, ts_adj2>>
    /\ UNCHANGED <<extVars, ordVars, runVars, pipeVars>>

\* adjust_timestamp_to_cycle(ts, cycle_start_date_only) on some timestamp.
Remap ==
    /\ cpc = "window"
    /\ cpc' = "remapped"
    /\ \E ts \in Timestamps :
          /\ ts_in' = ts
          /\ ts_adj' = adjust_timestamp_to_cycle(ts, cycle_start_date_only)
    /\ UNCHANGED <<earliest_timestamp, cycle_start, cycle_end,
                   cycle_start_date_only, ts_adj2>>
    /\ UNCHANGED <<extVars, ordVars, runVars, pipeVars>>

\* The same call on the result.
RemapAgain ==
    /\ cpc = "remapped"
    /\ cpc' = "twice"
    /\ ts_adj2' = adjust_timestamp_to_cycle(ts_adj, cycle_start_date_only)
    /\ UNCHANGED <<earliest_timestamp, cycle_start, cycle_end,
                   cycle_start_date_only, ts_in, ts_adj>>
    /\ UNCHANGED <<extVars, ordVars, runVars, pipeVars>>

\* ------------------------------------------------------------------------
\* Display order of the row names: smart_sort_key (main.py 189-209,
\* dashboard_app.py 164-183) and sorted() (main.py 212, dashboard_app.py 217)
\* ------------------------------------------------------------------------

\* A string is a sequence of characters. The characters the model uses, in
\* the order of their code points; "oe" stands for the one letter o-umlaut
\* (U+00F6), which like every non-ASCII letter comes after "z".
Chars == <<" ", "(", ")", "-", "/",
           "0", "1", "2", "3", "4", "5", "6", "7", "8", "9",
           "A", "H", "_",
           "a", "d", "e", "h", "i", "l", "n", "r", "v", "x", "z", "oe">>

Code(c) == CHOOSE i \in DOMAIN Chars : Chars[i] = c

Digits == <<"0", "1", "2", "3", "4", "5", "6", "7", "8", "9">>

IsDigit(c) == \E i \in DOMAIN Digits : Digits[i] = c

DigitValue(c) == (CHOOSE i \in DOMAIN Digits : Digits[i] = c) - 1

IsSpace(c) == c = " "

\* str.lower()
UpperLetters == <<"A", "D", "G", "H", "I", "M", "N", "S", "W", "Z">>
LowerLetters == <<"a", "d", "g", "h", "i", "m", "n", "s", "w", "z">>

LowerChar(c) ==
    IF \E i \in DOMAIN UpperLetters : UpperLetters[i] = c
    THEN LowerLetters[CHOOSE i \in DOMAIN UpperLetters : UpperLetters[i] = c]
    ELSE c
Lower(s) == [i \in DOMAIN s |-> LowerChar(s[i])]

\* str.strip()
Strip(s) ==
    LET keep == {i \in DOMAIN s : ~IsSpace(s[i])}
    IN  IF keep = {} THEN <<>> ELSE SubSeq(s, Min(keep), Max(keep))

\* The first position >= from at which pat occurs in s, 0 when there is none.
Find(s, pat, from) ==
    LET hits == {i \in from..(Len(s) - Len(pat) + 1) :
                    SubSeq(s, i, i + Len(pat) - 1) = pat}
    IN  IF hits = {} THEN 0 ELSE Min(hits)

\* The first position > from of s that holds a character of the class P,
\* Len(s) + 1 when there is none.
FirstAfter(s, from, P) ==
    Min({Len(s) + 1} \cup {p \in (from + 1)..Len(s) : P[s[p]]})

\* Character classes, as functions on the characters of the model.
AllChars == {Chars[i] : i \in DOMAIN Chars}
NotSpace == [c \in AllChars |-> ~IsSpace(c)]
NotDigit == [c \in AllChars |-> ~IsDigit(c)]
IsDigitClass == [c \in AllChars |-> IsDigit(c)]
IsClose == [c \in AllChars |-> c = ")"]

\* int(x) of a run of digits
RECURSIVE ToInt(_)
ToInt(ds) ==
    IF ds = <<>> THEN 0
    ELSE 10 * ToInt(SubSeq(ds, 1, Len(ds) - 1)) + DigitValue(ds[Len(ds)])

\* row_name.split(" - "): parts[0], and parts[1] if there is one, else "".
Dash == <<" ", "-", " ">>

SplitBase(s) ==
    LET p == Find(s, Dash, 1)
    IN  IF p = 0 THEN s ELSE SubSeq(s, 1, p - 1)

SplitHerd(s) ==
    LET p == Find(s, Dash, 1)
        q == IF p = 0 THEN 0 ELSE Find(s, Dash, p + Len(Dash))
    IN  IF p = 0 THEN <<>>
        ELSE IF q = 0 THEN SubSeq(s, p + Len(Dash), Len(s))
        ELSE SubSeq(s, p + Len(Dash), q - 1)

\* re.match(r"^(.*?)\s*\(([^)]+)\)\s*$", base). With group 1 of length i,
\* \s* takes the spaces that follow, "(" must come next, [^)]+ runs to the
\* first ")" and takes at least one character, and only spaces may follow
\* that ")". The lazy group 1 is the shortest that lets the rest match.
OpenAt(base, i) == FirstAfter(base, i, NotSpace)
CloseAt(base, i) == FirstAfter(base, OpenAt(base, i), IsClose)

MatchLengths(base) ==
    {i \in 0..Len(base) :
        /\ OpenAt(base, i) <= Len(base)
        /\ base[OpenAt(base, i)] = "("
        /\ CloseAt(base, i) <= Len(base)
        /\ CloseAt(base, i) >= OpenAt(base, i) + 2
        /\ \A p \in (CloseAt(base, i) + 1)..Len(base) : IsSpace(base[p])}

Matches(base) == MatchLengths(base) # {}

Group1(base) == SubSeq(base, 1, Min(MatchLengths(base)))

Group2(base) ==
    LET i == Min(MatchLengths(base))
    IN  SubSeq(base, OpenAt(base, i) + 1, CloseAt(base, i) - 1)

DeviceType(base) ==
    IF Matches(base) THEN Strip(Lower(Group1(base))) ELSE Lower(base)

DeviceId(base) ==
    IF Matches(base) THEN Strip(Group2(base)) ELSE <<>>

\* [int(x) ... for x in re.findall(r'\d+', device_id)]: the maximal runs of
\* digits, left to right.
RECURSIVE FindAllNumbers(_)
FindAllNumbers(s) ==
    LET b == FirstAfter(s, 0, IsDigitClass)
        e == FirstAfter(s, b, NotDigit)
    IN  IF b > Len(s) THEN <<>>
        ELSE <<ToInt(SubSeq(s, b, e - 1))>> \o FindAllNumbers(SubSeq(s, e, Len(s)))

\* re.search(r"Herd\s*(\d+)", herd): the first "Herd" that spaces and then a
\* digit follow; the group is the run of digits.
HerdWord == <<"H", "e", "r", "d">>

HerdHits(herd) ==
    {p \in 1..(Len(herd) - Len(HerdWord) + 1) :
        /\ SubSeq(herd, p, p + Len(HerdWord) - 1) = HerdWord
        /\ LET d == FirstAfter(herd, p + Len(HerdWord) - 1, NotSpace)
           IN  d <= Len(herd) /\ IsDigit(herd[d])}

HerdNum(herd) ==
    IF HerdHits(herd) = {} THEN 0
    ELSE LET p == Min(HerdHits(herd))
             d == FirstAfter(herd, p + Len(HerdWord) - 1, NotSpace)
             e == FirstAfter(herd, d, NotDigit)
         IN  ToInt(SubSeq(herd, d, e - 1))

\* The placeholder number of the sentinel key and of an id without digits.
Placeholder == 9999

\* "0" and "nan", the device types that count as missing.
Zero == <<"0">>
Nan == <<"n", "a", "n">>

\* if not device_type or device_type == "0" or device_type == "nan" or not device_id
IsInvalid(row_name) ==
    LET base == SplitBase(row_name)
    IN  \/ DeviceType(base) = <<>>
        \/ DeviceType(base) = Zero
        \/ DeviceType(base) = Nan
        \/ DeviceId(base) = <<>>

\* ("zzz_invalid", [9999], 9999)
SentinelKey ==
    << <<"z", "z", "z", "_", "i", "n", "v", "a", "l", "i", "d">>,
       <<Placeholder>>, Placeholder >>

smart_sort_key(row_name) ==
    LET base == SplitBase(row_name)
        herd == SplitHerd(row_name)
        id_numbers == FindAllNumbers(DeviceId(base))
    IN  IF IsInvalid(row_name) THEN SentinelKey
        ELSE << DeviceType(base),
                IF id_numbers = <<>> THEN <<Placeholder>> ELSE id_numbers,
                HerdNum(herd) >>

\* Python's "<" on strings (by code point) and on lists of integers: the
\* first position that differs decides, a proper prefix is smaller.
StrLess(a, b) ==
    \E i \in 1..(Len(b)) :
        /\ \A j \in 1..(i - 1) : j <= Len(a) /\ a[j] = b[j]
        /\ \/ i = Len(a) + 1
           \/ i <= Len(a) /\ Code(a[i]) < Code(b[i])

ListLess(a, b) ==
    \E i \in 1..(Len(b)) :
        /\ \A j \in 1..(i - 1) : j <= Len(a) /\ a[j] = b[j]
        /\ \/ i = Len(a) + 1
           \/ i <= Len(a) /\ a[i] < b[i]

\* Python's "<" on the key tuples.
KeyLess(k1, k2) ==
    \/ StrLess(k1[1], k2[1])
    \/ k1[1] = k2[1] /\ ListLess(k1[2], k2[2])
    \/ k1[1] = k2[1] /\ k1[2] = k2[2] /\ k1[3] < k2[3]

\* sorted(names, key=smart_sort_key): stable, so a name goes behind every
\* name already placed whose key is not greater than its own.
RECURSIVE Insert(_, _)
Insert(sorted, x) ==
    IF sorted = <<>> THEN <<x>>
    ELSE IF KeyLess(smart_sort_key(x), smart_sort_key(sorted[Len(sorted)]))
         THEN Append(Insert(SubSeq(sorted, 1, Len(sorted) - 1), x), sorted[Len(sorted)])
         ELSE Append(sorted, x)

RECURSIVE SortedByKey(_)
SortedByKey(names) ==
    IF names = <<>> THEN <<>>
    ELSE Insert(SortedByKey(SubSeq(names, 1, Len(names) - 1)), names[Len(names)])

\* Row names of the data sets of the model.
NamePool ==
    {
     <<"a", " ", "(", "1", ")">>,  \* "a (1)"
     <<"a", " ", "(", "2", "/", "1", ")">>,  \* "a (2/1)"
     <<"A", " ", "(", "1", ")", " ", "-", " ", "H", "e", "r", "d", " ", "2">>,  \* "A (1) - Herd 2"
     <<"n", "a", "n", " ", "(", ")">>,  \* "nan ()"
     <<"n", "a", "n", " ", "(", "5", ")">>,  \* "nan (5)"
     <<"0", " ", "(", "1", ")">>,  \* "0 (1)"
     <<" ", "(", "7", ")">>,  \* " (7)"
     <<"z", "z", " ", "(", "x", ")">>,  \* "zz (x)"
     <<"oe", "l", " ", "(", "1", ")">>   \* "{o-umlaut}l (1)"
    }

\* The lists of distinct names unique() may return.
NameLists ==
    {l \in UNION {[1..n -> NamePool] : n \in 1..MaxNames} :
        \A i, j \in DOMAIN l : i # j => l[i] # l[j]}

\* all_names = sorted(df["row_name"].unique(), key=smart_sort_key)
SortNames ==
    /\ opc = "unsorted"
    /\ opc' = "sorted"
    /\ all_names' = SortedByKey(row_names)
    /\ UNCHANGED row_names
    /\ UNCHANGED <<extVars, cycVars, runVars, pipeVars>>

\* ------------------------------------------------------------------------
\* One run of a script, from the column names to the charts: main.py as a
\* whole, and load_and_clean_csv followed by create_dashboard_html in
\* dashboard_app.py
\* ------------------------------------------------------------------------

Roles == {"time", "device", "message", "target", "actual"}

\* The key fragments find_col is called with (main.py 46-50,
\* dashboard_app.py 52-56). "ae" stands for the letter a-umlaut and ",," for
\* the character that a wrongly decoded a-umlaut shows as.
Keys(role) ==
    CASE role = "time" -> {<<"D", "a", "t", "u", "m">>, <<"Z", "e", "i", "t">>}
      [] role = "device" -> {<<"G", "e", "r">>, <<"G", "e", "r", "ae", "t">>, <<"G", "e", "r", ",,", "t">>}
      [] role = "message" -> {<<"M", "e", "l", "d">>}
      [] role = "target" -> {<<"S", "o", "l", "l">>}
      [] role = "actual" -> {<<"I", "s", "t">>}

\* Column names a CSV file of the model may have, in file order.
Headers ==
    <<<<"D", "a", "t", "u", "m", "/", "Z", "e", "i", "t">>,
      <<"G", "e", "r", "ae", "t">>,
      <<"M", "e", "l", "d", "u", "n", "g">>,
      <<"S", "o", "l", "l">>,
      <<"I", "s", "t">>,
      <<"N", "r">>,
      <<"W", "e", "r", "t">>>>

\* The fewest columns a file must have to be taken as read (tmp.shape[1] >= 5).
MinColumns == 5

\* The column lists of the model: Headers with some names left out.
RECURSIVE Pick(_, _)
Pick(seq, keep) ==
    IF seq = <<>> THEN <<>>
    ELSE (IF Len(seq) \in keep THEN Pick(SubSeq(seq, 1, Len(seq) - 1), keep) \o <<seq[Len(seq)]>>
          ELSE Pick(SubSeq(seq, 1, Len(seq) - 1), keep))

ColumnLists ==
    {Pick(Headers, keep) : keep \in {k \in SUBSET DOMAIN Headers : Cardinality(k) >= MinColumns}}

NoColumn == <<>>

\* find_col(keys): the first column whose lower-cased name contains a
\* lower-cased key, None when there is none.
find_col(cols, keys) ==
    LET hits == {i \in DOMAIN cols :
                    \E k \in keys : Find(Lower(cols[i]), Lower(k), 1) # 0}
    IN  IF hits = {} THEN NoColumn ELSE cols[Min(hits)]

Missing(cols) == {role \in Roles : find_col(cols, Keys(role)) = NoColumn}

\* Timestamps the cells of the model spell out.
SampleStamps == {MakeTimestamp(1, 10, 1), MakeTimestamp(1, CycleHour + 1, 0)}

\* A cell of the time column: a timestamp in the "date, time, fraction" form,
\* one in a form the day-first fallback reads, or text that is no timestamp.
RawCells ==
    {[form |-> f, t |-> t] : f \in {"triple", "dayfirst"}, t \in SampleStamps}
        \cup {[form |-> "garbage", t |-> None]}

\* parse_timestamp: NaT (None) for a cell neither form reads.
parse_timestamp(cell) ==
    IF cell.form = "triple" THEN cell.t
    ELSE IF cell.form = "dayfirst" THEN cell.t
    ELSE None

\* sort_values("timestamp") on the parsed column.
RECURSIVE InsertAscending(_, _)
InsertAscending(sorted, t) ==
    IF sorted = <<>> THEN <<t>>
    ELSE IF t < sorted[Len(sorted)]
         THEN Append(InsertAscending(SubSeq(sorted, 1, Len(sorted) - 1), t), sorted[Len(sorted)])
         ELSE Append(sorted, t)

RECURSIVE SortAscending(_)
SortAscending(ts) ==
    IF ts = <<>> THEN <<>>
    ELSE InsertAscending(SortAscending(SubSeq(ts, 1, Len(ts) - 1)), ts[Len(ts)])

\* df["timestamp"] = ...apply(parse_timestamp); dropna; sort_values
ParsedAndSorted(cs) ==
    SortAscending(SelectSeq([i \in DOMAIN cs |-> parse_timestamp(cs[i])],
                            LAMBDA t : t # None))

NoError == [kind |-> "none", roles |-> {}]

Fail(kind, roles) ==
    /\ rpc' = "failed"
    /\ error' = [kind |-> kind, roles |-> roles]

\* Section 2, up to the rename. dashboard_app.py returns with st.error when a
\* column was not found; its message lists all five columns. main.py goes on.
Resolve ==
    /\ rpc = "resolve"
    /\ IF script = "dashboard_app" /\ Missing(columns) # {}
       THEN Fail("SchemaResolution", Roles)
       ELSE rpc' = "parse" /\ UNCHANGED error
    /\ UNCHANGED <<script, columns, cells, df, normalized, extracted, rows_fed, rendered>>
    /\ UNCHANGED <<extVars, cycVars, ordVars, pipeVars>>

\* The time parsing. df["Datum/Zeit"] is a KeyError in main.py when the time
\* column was not found. dashboard_app.py returns with st.error when no row
\* is left.
ParseTimestamps ==
    /\ rpc = "parse"
    /\ IF "time" \in Missing(columns)
       THEN Fail("KeyError", {"time"}) /\ UNCHANGED df
       ELSE /\ df' = ParsedAndSorted(cells)
            /\ IF script = "dashboard_app" /\ df' = <<>>
               THEN Fail("EmptyDataset", {})
               ELSE rpc' = "device" /\ UNCHANGED error
    /\ UNCHANGED <<script, columns, cells, normalized, extracted, rows_fed, rendered>>
    /\ UNCHANGED <<extVars, cycVars, ordVars, pipeVars>>

\* Section 3, device_type and device_id. df["Geraet"] is a KeyError when the
\* device column was not found. On a frame without rows the apply gives an
\* empty Series, and pandas refuses to set two columns from it ("Columns must
\* be same length as key") in the releases that check the width first; the
\* others go on.
ParseDevice ==
    /\ rpc = "device"
    /\ \/ /\ "device" \in Missing(columns)
          /\ Fail("KeyError", {"device"})
       \/ /\ "device" \notin Missing(columns)
          /\ df = <<>>
          /\ Fail("ValueError", {})
       \/ /\ "device" \notin Missing(columns)
          /\ rpc' = "message"
          /\ UNCHANGED error
    /\ UNCHANGED <<script, columns, cells, df, normalized, extracted, rows_fed, rendered>>
    /\ UNCHANGED <<extVars, cycVars, ordVars, pipeVars>>

\* herd, row_name, the three flags and prog_num, all read from df["Meldung"]:
\* a KeyError when the message column was not found.
ClassifyMessages ==
    /\ rpc = "message"
    /\ IF "message" \in Missing(columns)
       THEN Fail("KeyError", {"message"}) /\ UNCHANGED normalized
       ELSE rpc' = "extract" /\ normalized' = TRUE /\ UNCHANGED error
    /\ UNCHANGED <<script, columns, cells, df, extracted, rows_fed, rendered>>
    /\ UNCHANGED <<extVars, cycVars, ordVars, pipeVars>>

\* The phase extraction loop as one step: it iterates every row of df.
ExtractPhases ==
    /\ rpc = "extract"
    /\ rpc' = "cycle"
    /\ extracted' = TRUE
    /\ rows_fed' = Len(df)
    /\ UNCHANGED <<script, columns, cells, df, error, normalized, rendered>>
    /\ UNCHANGED <<extVars, cycVars, ordVars, pipeVars>>

\* Section 4.5. main.py raises here when the frame is empty;
\* create_dashboard_html is only called with a frame that has rows.
CycleWindow ==
    /\ rpc = "cycle"
    /\ IF script = "main" /\ df = <<>>
       THEN /\ Fail("EmptyDataset", {})
            /\ UNCHANGED <<earliest_timestamp, cycle_start, cycle_end,
                           cycle_start_date_only>>
       ELSE /\ rpc' = "render"
            /\ earliest_timestamp' = df[1]
            /\ cycle_start' = CycleStart(earliest_timestamp')
            /\ cycle_end' = CycleEnd(cycle_start')
            /\ cycle_start_date_only' = Normalize(cycle_start')
            /\ UNCHANGED error
    /\ UNCHANGED <<script, columns, cells, df, normalized, extracted, rows_fed, rendered>>
    /\ UNCHANGED <<cpc, ts_in, ts_adj, ts_adj2>>
    /\ UNCHANGED <<extVars, ordVars, pipeVars>>

\* Section 5: the chart of the first name reads subset["Ist"] and then
\* subset["Soll"], each a KeyError when its column was not found.
Render ==
    /\ rpc = "render"
    /\ IF "actual" \in Missing(columns)
       THEN Fail("KeyError", {"actual"}) /\ UNCHANGED rendered
       ELSE IF "target" \in Missing(columns)
       THEN Fail("KeyError", {"target"}) /\ UNCHANGED rendered
       ELSE rpc' = "done" /\ rendered' = TRUE /\ UNCHANGED error
    /\ UNCHANGED <<script, columns, cells, df, normalized, extracted, rows_fed>>
    /\ UNCHANGED <<extVars, cycVars, ordVars, pipeVars>>

\* ------------------------------------------------------------------------
\* From the sorted frame to the charts: sort_values (main.py 74), the
\* extraction loop over the groups (134-155), the cycle window (165-180, 234)
\* and the chart loop (236-324); dashboard_app.py 85, 139-159, 202-211, 224-281
\* ------------------------------------------------------------------------

\* A row of the frame: the group it belongs to (index into RowNames), what
\* the loop reads of it, and its position in the file.
FrameRows ==
    [row_name : DOMAIN RowNames, timestamp : SampleStamps,
     is_loaded : BOOLEAN, is_started : BOOLEAN, is_ended : BOOLEAN,
     prog_num : {None}, pos : 1..MaxFrameRows]

\* The frames of the model: one to MaxFrameRows rows, each at its position.
Frames ==
    {f \in UNION {[1..n -> FrameRows] : n \in 1..MaxFrameRows} :
        \A i \in DOMAIN f : f[i].pos = i}

Orderings(n) ==
    {q \in [1..n -> 1..n] : \A i, j \in 1..n : i # j => q[i] # q[j]}

\* sort_values("timestamp") with the default kind="quicksort": the rows come
\* out in ascending order of the timestamp; the order among rows of the same
\* timestamp is whatever the sort leaves, it is not a stable sort.
SortValues(rows) ==
    {[i \in DOMAIN rows |-> rows[q[i]]] : q \in
        {q \in Orderings(Len(rows)) :
            \A i \in 1..(Len(rows) - 1) :
                rows[q[i]].timestamp <= rows[q[i + 1]].timestamp}}

\* The group of a name: its rows of the frame, in the frame's order.
GroupOf(rows, n) == SelectSeq(rows, LAMBDA r : r.row_name = n)

\* "for _, r in g.iterrows()" over a whole group.
RECURSIVE FeedGroup(_, _, _, _)
FeedGroup(st, g, n, k) ==
    IF k = 0 THEN st
    ELSE ProcessRow(FeedGroup(st, g, n, k - 1), g[k], RowNames[n])

\* The loop over the groups, gs[n] being group n as it is iterated.
RECURSIVE FeedGroups(_, _, _)
FeedGroups(st, gs, n) ==
    IF n = 0 THEN st
    ELSE FeedGroup(ResetPending(FeedGroups(st, gs, n - 1)), gs[n], n, Len(gs[n]))

EmptyLists ==
    [t_load |-> None, t_start |-> None, prog_num |-> None,
     preheats |-> <<>>, runs |-> <<>>]

\* df = df.dropna(...).sort_values("timestamp")
SortFrame ==
    /\ ppc = "sort"
    /\ ppc' = "extract"
    /\ sdf' \in SortValues(raw)
    /\ UNCHANGED <<raw, rname, charts>>
    /\ UNCHANGED <<extVars, cycVars, ordVars, runVars>>

\* The extraction loop as a whole: every group is sorted again and iterated.
ExtractFrame ==
    /\ ppc = "extract"
    /\ ppc' = "window"
    /\ \E gs \in [DOMAIN RowNames -> UNION {SortValues(GroupOf(sdf, n)) : n \in DOMAIN RowNames}] :
          /\ \A n \in DOMAIN RowNames : gs[n] \in SortValues(GroupOf(sdf, n))
          /\ ev' = gs
          /\ SetPending(FeedGroups(EmptyLists, gs, Len(RowNames)))
    /\ name' = Len(RowNames)
    /\ UNCHANGED <<raw, sdf, rname, charts>>
    /\ UNCHANGED <<cycVars, ordVars, runVars>>

\* Section 4.5 on the sorted frame.
WindowOfFrame ==
    /\ ppc = "window"
    /\ ppc' = "render"
    /\ earliest_timestamp' = Min({sdf[i].timestamp : i \in DOMAIN sdf})
    /\ cycle_start' = CycleStart(earliest_timestamp')
    /\ cycle_end' = CycleEnd(cycle_start')
    /\ cycle_start_date_only' = Normalize(cycle_start')
    /\ UNCHANGED <<cpc, ts_in, ts_adj, ts_adj2>>
    /\ UNCHANGED <<raw, sdf, rname, charts>>
    /\ UNCHANGED <<extVars, ordVars, runVars>>

\* What one pass of the chart loop draws for name n: the timestamps of
\* subset, and the shapes of the unit's Preheats and Runs, all remapped.
ChartOf(store, n, d) ==
    LET subset == GroupOf(store.df, n)
        P == SelectSeq(store.preheats, LAMBDA x : x[1] = RowNames[n])
        R == SelectSeq(store.runs, LAMBDA x : x[1] = RowNames[n])
    IN  [name |-> RowNames[n],
         timestamp |-> [i \in DOMAIN subset |->
                          adjust_timestamp_to_cycle(subset[i].timestamp, d)],
         preheats |-> [i \in DOMAIN P |->
                          <<adjust_timestamp_to_cycle(P[i][2], d),
                            adjust_timestamp_to_cycle(P[i][3], d)>>],
         runs |-> [i \in DOMAIN R |->
                          <<adjust_timestamp_to_cycle(R[i][2], d),
                            adjust_timestamp_to_cycle(R[i][3], d), R[i][4]>>]]

\* Mutant of RenderName: no .copy(), and the adjusted end points are written
\* back into the lists.
RenderInPlace(store, n, d) ==
    [store |->
        [df |-> [i \in DOMAIN store.df |->
                    IF store.df[i].row_name = n
                    THEN [store.df[i] EXCEPT !.timestamp = adjust_timestamp_to_cycle(@, d)]
                    ELSE store.df[i]],
         preheats |-> [i \in DOMAIN store.preheats |->
                    IF store.preheats[i][1] = RowNames[n]
                    THEN <<store.preheats[i][1],
                           adjust_timestamp_to_cycle(store.preheats[i][2], d),
                           adjust_timestamp_to_cycle(store.preheats[i][3], d)>>
                    ELSE store.preheats[i]],
         runs |-> [i \in DOMAIN store.runs |->
                    IF store.runs[i][1] = RowNames[n]
                    THEN <<store.runs[i][1],
                           adjust_timestamp_to_cycle(store.runs[i][2], d),
                           adjust_timestamp_to_cycle(store.runs[i][3], d),
                           store.runs[i][4]>>
                    ELSE store.runs[i]]],
     chart |-> ChartOf(store, n, d)]

\* One pass of "for name in all_names": subset is a copy, s_adj and e_adj are
\* locals; df, preheats and runs are read only.
RenderName(store, n, d) ==
    [store |-> store, chart |-> ChartOf(store, n, d)]

\* The chart loop, one name per step; a name without rows is skipped.
RenderChart ==
    /\ ppc = "render"
    /\ rname < Len(RowNames)
    /\ rname' = rname + 1
    /\ ppc' = IF rname' = Len(RowNames) THEN "done" ELSE "render"
    /\ LET res == RenderName([df |-> sdf, preheats |-> preheats, runs |-> runs],
                             rname', cycle_start_date_only)
       IN  /\ sdf' = res.store.df
           /\ preheats' = res.store.preheats
           /\ runs' = res.store.runs
           /\ charts' = IF GroupOf(sdf, rname') = <<>> THEN charts
                        ELSE Append(charts, res.chart)
    /\ UNCHANGED <<name, ev, t_load, t_start, prog_num>>
    /\ UNCHANGED raw
    /\ UNCHANGED <<cycVars, ordVars, runVars>>

\* ------------------------------------------------------------------------
\* Specifications
\* ------------------------------------------------------------------------

\* The phase extraction loop.
Init ==
    /\ name = 0
    /\ ev = [n \in 1..Len(RowNames) |-> <<>>]
    /\ t_load = None
    /\ t_start = None
    /\ prog_num = None
    /\ preheats = <<>>
    /\ runs = <<>>
    /\ cpc = "start"
    /\ earliest_timestamp = None
    /\ cycle_start = None
    /\ cycle_end = None
    /\ cycle_start_date_only = None
    /\ ts_in = None
    /\ ts_adj = None
    /\ ts_adj2 = None
    /\ opc = "unsorted"
    /\ row_names = <<>>
    /\ all_names = <<>>
    /\ script = "main"
    /\ rpc = "resolve"
    /\ columns = <<>>
    /\ cells = <<>>
    /\ df = <<>>
    /\ error = NoError
    /\ normalized = FALSE
    /\ extracted = FALSE
    /\ rows_fed = 0
    /\ rendered = FALSE
    /\ ppc = "sort"
    /\ raw = <<>>
    /\ sdf = <<>>
    /\ rname = 0
    /\ charts = <<>>

Next == NextGroup \/ IterRow

Spec == Init /\ [][Next]_vars

\* The cycle window of a data set and the remap of timestamps into it.
NextCycle == ComputeCycleWindow \/ Remap \/ RemapAgain

InitCycle ==
    /\ name = 0
    /\ ev = [n \in 1..Len(RowNames) |-> <<>>]
    /\ t_load = None
    /\ t_start = None
    /\ prog_num = None
    /\ preheats = <<>>
    /\ runs = <<>>
    /\ cpc = "start"
    /\ earliest_timestamp \in Timestamps
    /\ cycle_start = None
    /\ cycle_end = None
    /\ cycle_start_date_only = None
    /\ ts_in = None
    /\ ts_adj = None
    /\ ts_adj2 = None
    /\ opc = "unsorted"
    /\ row_names = <<>>
    /\ all_names = <<>>
    /\ script = "main"
    /\ rpc = "resolve"
    /\ columns = <<>>
    /\ cells = <<>>
    /\ df = <<>>
    /\ error = NoError
    /\ normalized = FALSE
    /\ extracted = FALSE
    /\ rows_fed = 0
    /\ rendered = FALSE
    /\ ppc = "sort"
    /\ raw = <<>>
    /\ sdf = <<>>
    /\ rname = 0
    /\ charts = <<>>

SpecCycle == InitCycle /\ [][NextCycle]_vars

\* The display order of the row names.
NextOrder == SortNames

InitOrder ==
    /\ name = 0
    /\ ev = [n \in 1..Len(RowNames) |-> <<>>]
    /\ t_load = None
    /\ t_start = None
    /\ prog_num = None
    /\ preheats = <<>>
    /\ runs = <<>>
    /\ cpc = "start"
    /\ earliest_timestamp = None
    /\ cycle_start = None
    /\ cycle_end = None
    /\ cycle_start_date_only = None
    /\ ts_in = None
    /\ ts_adj = None
    /\ ts_adj2 = None
    /\ opc = "unsorted"
    /\ row_names \in NameLists
    /\ all_names = <<>>
    /\ script = "main"
    /\ rpc = "resolve"
    /\ columns = <<>>
    /\ cells = <<>>
    /\ df = <<>>
    /\ error = NoError
    /\ normalized = FALSE
    /\ extracted = FALSE
    /\ rows_fed = 0
    /\ rendered = FALSE
    /\ ppc = "sort"
    /\ raw = <<>>
    /\ sdf = <<>>
    /\ rname = 0
    /\ charts = <<>>

SpecOrder == InitOrder /\ [][NextOrder]_vars

\* The loop inside the first group, longer sequences of one unit.
NextUnit == IterRowOfUnit

InitUnit ==
    /\ name = 1
    /\ ev = [n \in 1..Len(RowNames) |-> <<>>]
    /\ t_load = None
    /\ t_start = None
    /\ prog_num = None
    /\ preheats = <<>>
    /\ runs = <<>>
    /\ cpc = "start"
    /\ earliest_timestamp = None
    /\ cycle_start = None
    /\ cycle_end = None
    /\ cycle_start_date_only = None
    /\ ts_in = None
    /\ ts_adj = None
    /\ ts_adj2 = None
    /\ opc = "unsorted"
    /\ row_names = <<>>
    /\ all_names = <<>>
    /\ script = "main"
    /\ rpc = "resolve"
    /\ columns = <<>>
    /\ cells = <<>>
    /\ df = <<>>
    /\ error = NoError
    /\ normalized = FALSE
    /\ extracted = FALSE
    /\ rows_fed = 0
    /\ rendered = FALSE
    /\ ppc = "sort"
    /\ raw = <<>>
    /\ sdf = <<>>
    /\ rname = 0
    /\ charts = <<>>

SpecUnit == InitUnit /\ [][NextUnit]_vars

\* A frame of rows with timestamps, sorted, extracted from and drawn.
NextFrame ==
    \/ SortFrame
    \/ ExtractFrame
    \/ WindowOfFrame
    \/ RenderChart

InitFrame ==
    /\ name = 0
    /\ ev = [n \in 1..Len(RowNames) |-> <<>>]
    /\ t_load = None
    /\ t_start = None
    /\ prog_num = None
    /\ preheats = <<>>
    /\ runs = <<>>
    /\ cpc = "start"
    /\ earliest_timestamp = None
    /\ cycle_start = None
    /\ cycle_end = None
    /\ cycle_start_date_only = None
    /\ ts_in = None
    /\ ts_adj = None
    /\ ts_adj2 = None
    /\ opc = "unsorted"
    /\ row_names = <<>>
    /\ all_names = <<>>
    /\ script = "main"
    /\ rpc = "resolve"
    /\ columns = <<>>
    /\ cells = <<>>
    /\ df = <<>>
    /\ error = NoError
    /\ normalized = FALSE
    /\ extracted = FALSE
    /\ rows_fed = 0
    /\ rendered = FALSE
    /\ ppc = "sort"
    /\ raw \in Frames
    /\ sdf = <<>>
    /\ rname = 0
    /\ charts = <<>>

SpecFrame == InitFrame /\ [][NextFrame]_vars

\* One run of either script on one CSV file.
NextRun ==
    \/ Resolve
    \/ ParseTimestamps
    \/ ParseDevice
    \/ ClassifyMessages
    \/ ExtractPhases
    \/ CycleWindow
    \/ Render

InitRun ==
    /\ name = 0
    /\ ev = [n \in 1..Len(RowNames) |-> <<>>]
    /\ t_load = None
    /\ t_start = None
    /\ prog_num = None
    /\ preheats = <<>>
    /\ runs = <<>>
    /\ cpc = "start"
    /\ earliest_timestamp = None
    /\ cycle_start = None
    /\ cycle_end = None
    /\ cycle_start_date_only = None
    /\ ts_in = None
    /\ ts_adj = None
    /\ ts_adj2 = None
    /\ opc = "unsorted"
    /\ row_names = <<>>
    /\ all_names = <<>>
    /\ script \in {"main", "dashboard_app"}
    /\ rpc = "resolve"
    /\ columns \in ColumnLists
    /\ cells \in UNION {[1..n -> RawCells] : n \in 0..MaxCsvRows}
    /\ df = <<>>
    /\ error = NoError
    /\ normalized = FALSE
    /\ extracted = FALSE
    /\ rows_fed = 0
    /\ rendered = FALSE
    /\ ppc = "sort"
    /\ raw = <<>>
    /\ sdf = <<>>
    /\ rname = 0
    /\ charts = <<>>

SpecRun == InitRun /\ [][NextRun]_vars

\* ------------------------------------------------------------------------
\* What the claims speak of: the events of a unit, by position
\* ------------------------------------------------------------------------

NameIndex(s) == CHOOSE n \in DOMAIN RowNames : RowNames[n] = s

Loaded(g) == {k \in DOMAIN g : g[k].is_loaded}
Started(g) == {k \in DOMAIN g : g[k].is_started}
Ended(g) == {k \in DOMAIN g : g[k].is_ended}
WithProg(g) == {k \in DOMAIN g : g[k].prog_num # None}

\* The last position of S at or before k, 0 when there is none.
LastIn(S, k) == Max({0} \cup {j \in S : j <= k})

\* The entries of an interval list that carry the name of unit n.
OfUnit(list, n) == SelectSeq(list, LAMBDA x : x[1] = RowNames[n])

\* Positions at which a Preheat closes: a Started event whose most recent
\* Loaded event (itself included) has no Started event from it up to here.
PreheatRows(g) ==
    {k \in Started(g) :
        LET j == LastIn(Loaded(g), k)
        IN  j > 0 /\ \A m \in j..(k - 1) : m \notin Started(g)}

\* Positions at which a Run closes: an Ended event whose most recent Started
\* event (itself included) has no Ended event from it up to here.
RunRows(g) ==
    {k \in Ended(g) :
        LET j == LastIn(Started(g), k)
        IN  j > 0 /\ \A m \in j..(k - 1) : m \notin Ended(g)}

\* The label of the last program-number-bearing event after the previous
\* closing position and up to k, None when there is none.
ProgFor(g, k) ==
    LET prev == LastIn(RunRows(g), k - 1)
        q == LastIn({m \in WithProg(g) : m > prev}, k)
    IN  IF q = 0 THEN None ELSE g[q].prog_num

RECURSIVE PreheatSeq(_, _, _)
PreheatSeq(n, g, k) ==
    IF k = 0 THEN <<>>
    ELSE PreheatSeq(n, g, k - 1) \o
         (IF k \in PreheatRows(g)
          THEN << <<RowNames[n], g[LastIn(Loaded(g), k)].timestamp, g[k].timestamp>> >>
          ELSE <<>>)

RECURSIVE RunSeq(_, _, _)
RunSeq(n, g, k) ==
    IF k = 0 THEN <<>>
    ELSE RunSeq(n, g, k - 1) \o
         (IF k \in RunRows(g)
          THEN << <<RowNames[n], g[LastIn(Started(g), k)].timestamp, g[k].timestamp,
                    ProgFor(g, k)>> >>
          ELSE <<>>)

\* A step of the loop body, and the row it read.
RowStep == name' = name /\ ev' # ev
RowRead == ev'[name][Len(ev'[name])]

\* ------------------------------------------------------------------------
\* Claims about the phase extraction loop
\* ------------------------------------------------------------------------

Units == DOMAIN RowNames

\* C1: every emitted Run carries the timestamp of a Started event of its own
\* unit as start and the timestamp of an Ended event of that unit, later in
\* the unit's sequence than the Started event, as end.
C1_EndStrictlyLater ==
    \A i \in DOMAIN runs :
        LET g == ev[NameIndex(runs[i][1])]
        IN  \E j \in Started(g) : \E k \in Ended(g) :
                /\ j < k
                /\ g[j].timestamp = runs[i][2]
                /\ g[k].timestamp = runs[i][3]

\* What the loop does keep: the two events of a Run are events of its own
\* unit, the Ended event at the same or a later position than the Started one.
RunPairsOwnEvents ==
    \A i \in DOMAIN runs :
        LET g == ev[NameIndex(runs[i][1])]
        IN  \E j \in Started(g) : \E k \in Ended(g) :
                /\ j <= k
                /\ g[j].timestamp = runs[i][2]
                /\ g[k].timestamp = runs[i][3]

\* C2: a unit has at most as many Preheats as Loaded events; each Preheat
\* starts at the most recent Loaded event and ends at the first Started event
\* that follows it in the unit's sequence, no other Started event between.
C2_StartedFollowsLoaded ==
    \A n \in Units :
        LET g == ev[n]
            P == OfUnit(preheats, n)
        IN  /\ Len(P) <= Cardinality(Loaded(g))
            /\ \A i \in DOMAIN P :
                 \E j \in Loaded(g) : \E k \in Started(g) :
                    /\ j < k
                    /\ g[j].timestamp = P[i][2]
                    /\ g[k].timestamp = P[i][3]
                    /\ \A m \in (j + 1)..k : m \notin Loaded(g)
                    /\ \A m \in (j + 1)..(k - 1) : m \notin Started(g)

\* What the loop does keep: the Preheats of a unit are, in order, the pairs
\* (most recent Loaded event, first Started event at or after it).
PreheatPairs ==
    \A n \in Units :
        LET g == ev[n]
            P == OfUnit(preheats, n)
        IN  /\ Len(P) <= Cardinality(Loaded(g))
            /\ P = PreheatSeq(n, g, Len(g))

\* The state part of C3: no interval has a missing end point, and a unit has
\* at most min(#Started, #Ended) Runs.
NoFabricatedInterval ==
    /\ \A i \in DOMAIN preheats : preheats[i][2] # None /\ preheats[i][3] # None
    /\ \A i \in DOMAIN runs : runs[i][2] # None /\ runs[i][3] # None
    /\ \A n \in Units :
         /\ Len(OfUnit(runs, n)) <= Cardinality(Started(ev[n]))
         /\ Len(OfUnit(runs, n)) <= Cardinality(Ended(ev[n]))

\* A unit's sequence ends (the loop moves to the next group) with pending
\* state left: nothing is emitted for it.
NoFlushAtEnd ==
    (name' # name /\ (t_load # None \/ t_start # None))
        => UNCHANGED <<preheats, runs>>

\* C3: no interval has a missing end point; when a unit's sequence ends with
\* pending state left, nothing is emitted for it; an Ended event that arrives
\* while pending_start is empty emits no Run; the Runs of a unit are at most
\* min(#Started, #Ended).
C3_StrayEndedEmitsNothing ==
    /\ []NoFabricatedInterval
    /\ [][NoFlushAtEnd]_vars
    /\ [][(RowStep /\ RowRead.is_ended /\ t_start = None) => runs' = runs]_vars

\* What the loop does keep: the same, for the Ended events that are not
\* themselves Started events.
NoHalfOpenInterval ==
    /\ []NoFabricatedInterval
    /\ [][NoFlushAtEnd]_vars
    /\ [][(RowStep /\ RowRead.is_ended /\ ~RowRead.is_started /\ t_start = None)
            => runs' = runs]_vars

\* The state part of C4: the program numbers of a unit's Runs are, in order,
\* the last label seen after the previous closing event up to the closing one.
RunProgramIsLastSeen ==
    \A n \in Units :
        LET g == ev[n]
            R == OfUnit(runs, n)
            E == RunSeq(n, g, Len(g))
        IN  /\ Len(R) = Len(E)
            /\ \A i \in DOMAIN R : R[i][4] = E[i][4]

\* C4: each Run carries the label of the last program-number-bearing event of
\* its unit since the previous Run (or the beginning) up to and including the
\* closing Ended event, None when there is none; right after a Run is emitted
\* pending_start and pending_program are empty.
C4_RunProgram ==
    /\ []RunProgramIsLastSeen
    /\ [][Len(runs') > Len(runs) => (t_start' = None /\ prog_num' = None)]_vars

\* C4 witness: P1 on the Started event, P2 on the Ended event, and the Run
\* carries P2; the pending state is empty afterwards.
C4_Witness ==
    \E n \in Units :
        LET g == ev[n]
            R == OfUnit(runs, n)
        IN  /\ Len(g) = 2
            /\ g[1].is_started /\ g[1].prog_num = 1
            /\ g[2].is_ended /\ ~g[2].is_started /\ g[2].prog_num = 2
            /\ Len(R) = 1
            /\ R[1][4] = 2
            /\ t_start = None
            /\ prog_num = None

\* The pending state a unit's own events g leave behind.
PendingLoad(g) ==
    LET j == LastIn(Loaded(g), Len(g))
    IN  IF j > 0 /\ \A m \in j..Len(g) : m \notin Started(g)
        THEN g[j].timestamp ELSE None

PendingStart(g) ==
    LET j == LastIn(Started(g), Len(g))
    IN  IF j > 0 /\ \A m \in j..Len(g) : m \notin Ended(g)
        THEN g[j].timestamp ELSE None

PendingProg(g) ==
    LET prev == LastIn(RunRows(g), Len(g))
        q == LastIn({m \in WithProg(g) : m > prev}, Len(g))
    IN  IF q = 0 THEN None ELSE g[q].prog_num

C5_CycleWindow ==
    cpc # "start" =>
        /\ HourOf(cycle_start) = CycleHour
        /\ RestOf(cycle_start) = 0
        /\ DateOf(cycle_start) =
              (IF HourOf(earliest_timestamp) >= CycleHour
               THEN DateOf(earliest_timestamp)
               ELSE DateOf(earliest_timestamp) - 1)
        /\ cycle_end - cycle_start = HoursPerDay * TicksPerHour
        /\ DateOf(cycle_end) = DateOf(cycle_start) + 1
        /\ HourOf(cycle_end) = CycleHour
        /\ RestOf(cycle_end) = 0

\* C5 witness: the earliest timestamp is at 10:00 and something on day 2; the
\* window runs from day 1 22:00 to day 2 22:00.
C5_Witness ==
    /\ cpc = "window"
    /\ DateOf(earliest_timestamp) = 2
    /\ HourOf(earliest_timestamp) = 10
    /\ cycle_start = MakeTimestamp(1, CycleHour, 0)
    /\ cycle_end = MakeTimestamp(2, CycleHour, 0)

\* C6: the remap applied twice with the same cycle start date gives what it
\* gives applied once, and it keeps the hour and everything below the hour.
C6_RemapIdempotent ==
    /\ cpc \in {"remapped", "twice"} =>
         /\ HourOf(ts_adj) = HourOf(ts_in)
         /\ RestOf(ts_adj) = RestOf(ts_in)
    /\ cpc = "twice" => ts_adj2 = ts_adj

\* C6 witness: a timestamp before 22:00, not on the full hour, whose date the
\* remap changed, remapped twice.
C6_Witness ==
    /\ cpc = "twice"
    /\ HourOf(ts_in) < CycleHour
    /\ RestOf(ts_in) # 0
    /\ DateOf(ts_adj) # DateOf(ts_in)
    /\ ts_adj2 = ts_adj

\* ------------------------------------------------------------------------
\* Claims about the display order
\* ------------------------------------------------------------------------

PoolKeys == {smart_sort_key(l) : l \in NamePool}

KeyLeq(k1, k2) == k1 = k2 \/ KeyLess(k1, k2)

\* C7: the order of the keys is total and transitive, and in the sorted list
\* every name that gets the sentinel key stands after every name with a valid
\* key.
C7_InvalidSortLast ==
    /\ \A k1, k2 \in PoolKeys : KeyLeq(k1, k2) \/ KeyLeq(k2, k1)
    /\ \A k1, k2, k3 \in PoolKeys :
          (KeyLeq(k1, k2) /\ KeyLeq(k2, k3)) => KeyLeq(k1, k3)
    /\ opc = "sorted" =>
          \A i, j \in DOMAIN all_names :
             (IsInvalid(all_names[i]) /\ ~IsInvalid(all_names[j])) => j < i


\* ------------------------------------------------------------------------
\* The run as a whole (SpecRun)
\* ------------------------------------------------------------------------

RunEnded == rpc \in {"failed", "done"}

\* No row survived the timestamp parsing.
EmptyAfterParsing == "time" \notin Missing(columns) /\ ParsedAndSorted(cells) = <<>>

\* C9: when no row is left after the timestamps are parsed, the run computes
\* no cycle window, feeds no row to the extraction, draws no chart, and ends
\* in failure with the empty dataset error.
C9_EmptyDatasetError ==
    (Missing(columns) = {} /\ EmptyAfterParsing) =>
        /\ cycle_start = None
        /\ rows_fed = 0
        /\ ~rendered
        /\ RunEnded => (rpc = "failed" /\ error.kind = "EmptyDataset")

\* Some cell of the time column is a timestamp.
SomeRowParses == ParsedAndSorted(cells) # <<>>

\* C10: when a column role was not resolved (in a file that has rows with
\* timestamps), no row is normalized, the extraction loop does not run, and
\* the run ends in a failure that names an unresolved role.
C10_SchemaResolutionStops ==
    (Missing(columns) # {} /\ SomeRowParses) =>
        /\ ~normalized
        /\ ~extracted
        /\ RunEnded => (rpc = "failed" /\ error.roles \cap Missing(columns) # {})

\* ------------------------------------------------------------------------
\* Claims about one unit's sequence (SpecUnit)
\* ------------------------------------------------------------------------

\* The unit's sequence after the row of this step, and the row's position.
UnitAfter == ev'[name]
RowAt == Len(ev'[name])

\* The row of this step is the first Ended event after the latest Started
\* event before it.
NextEndedAfterStart ==
    LET g == UnitAfter
        j == LastIn(Started(g), RowAt - 1)
    IN  /\ RowRead.is_ended
        /\ j > 0
        /\ \A m \in (j + 1)..(RowAt - 1) : m \notin Ended(g)

EmitsOneRunFrom(t) ==
    /\ Len(runs') = Len(runs) + 1
    /\ runs'[Len(runs')][2] = t

\* C11: a Started event that arrives while pending_start is set puts its own
\* timestamp into pending_start and emits no Run; the next Ended event then
\* emits exactly one Run, which starts at the latest Started event.
C11_StartSupersedes ==
    /\ [][(RowStep /\ RowRead.is_started /\ t_start # None)
            => (runs' = runs /\ t_start' = RowRead.timestamp)]_vars
    /\ [][(RowStep /\ NextEndedAfterStart)
            => EmitsOneRunFrom(UnitAfter[LastIn(Started(UnitAfter), RowAt)].timestamp)]_vars

\* What the loop does keep: the same for the Started events that are not
\* themselves Ended events.
StartSupersedes ==
    /\ [][(RowStep /\ RowRead.is_started /\ ~RowRead.is_ended /\ t_start # None)
            => (runs' = runs /\ t_start' = RowRead.timestamp)]_vars
    /\ [][(RowStep /\ NextEndedAfterStart
             /\ ~UnitAfter[LastIn(Started(UnitAfter), RowAt - 1)].is_ended)
            => EmitsOneRunFrom(UnitAfter[LastIn(Started(UnitAfter), RowAt)].timestamp)]_vars

\* C15: every Preheat and every Run has start <= end, and within a unit each
\* Run starts no earlier than the Run emitted before it ended; likewise the
\* Preheats.
C15_IntervalsOrdered ==
    /\ \A i \in DOMAIN preheats : preheats[i][2] <= preheats[i][3]
    /\ \A i \in DOMAIN runs : runs[i][2] <= runs[i][3]
    /\ \A n \in Units :
         LET R == OfUnit(runs, n)
             P == OfUnit(preheats, n)
         IN  /\ \A i \in 2..Len(R) : R[i][2] >= R[i - 1][3]
             /\ \A i \in 2..Len(P) : P[i][2] >= P[i - 1][3]

\* C15 witness: Started, Ended, Started, Ended at four different times, each
\* row of one kind: two Runs, the second after the first.
C15_Witness ==
    LET g == ev[1]
        R == OfUnit(runs, 1)
    IN  /\ Len(g) = 4
        /\ Started(g) = {1, 3}
        /\ Ended(g) = {2, 4}
        /\ Len(R) = 2
        /\ R[1][2] < R[1][3]
        /\ R[1][3] < R[2][2]
        /\ R[2][2] < R[2][3]

\* ------------------------------------------------------------------------
\* The remap and the window (SpecCycle)
\* ------------------------------------------------------------------------

InWindow(ts) == cycle_start <= ts /\ ts < cycle_end

\* C14: every remapped timestamp lies in [cycle_start, cycle_end); a timestamp
\* that lies in the window already is remapped to itself; the earliest
\* timestamp of the data set lies in the window.
C14_RemapIntoWindow ==
    /\ cpc # "start" => InWindow(earliest_timestamp)
    /\ cpc \in {"remapped", "twice"} =>
         /\ InWindow(ts_adj)
         /\ InWindow(ts_in) => ts_adj = ts_in
    /\ cpc = "twice" => InWindow(ts_adj2)

\* C14 witness: a timestamp outside the window was remapped into it, and the
\* remap of the result, which lies in the window, left it as it was.
C14_Witness ==
    /\ cpc = "twice"
    /\ ~InWindow(ts_in)
    /\ InWindow(ts_adj)
    /\ ts_adj # ts_in
    /\ ts_adj2 = ts_adj

\* C14 witness of the identity: the earliest timestamp itself was remapped.
C14_EarliestUnchanged ==
    /\ cpc = "remapped"
    /\ ts_in = earliest_timestamp
    /\ ts_adj = earliest_timestamp

\* ------------------------------------------------------------------------
\* Claims about the sorted frame and the chart loop (SpecFrame)
\* ------------------------------------------------------------------------

\* The rows in ascending order of the timestamp, rows of the same timestamp
\* in the order of their positions in the file.
StableSorted(rows) ==
    CHOOSE srt \in SortValues(rows) :
        \A i, j \in DOMAIN srt :
            (i < j /\ srt[i].timestamp = srt[j].timestamp) => srt[i].pos < srt[j].pos

StableGroups == [n \in DOMAIN RowNames |-> StableSorted(GroupOf(raw, n))]

Extracted(gs) == FeedGroups(EmptyLists, gs, Len(RowNames))

\* C12: the Preheats and Runs are determined by the rows of the file: they
\* are those that feeding each unit's rows in ascending order of the
\* timestamp, rows of equal timestamps in their file order, gives.
C12_TiesKeepRowOrder ==
    ppc \notin {"sort", "extract"} =>
        /\ preheats = Extracted(StableGroups).preheats
        /\ runs = Extracted(StableGroups).runs

\* The state part of C13: nothing is drawn before the extraction is over,
\* and from then on the frame holds the rows with the timestamps of the file
\* and the lists hold the intervals extracted from them.
ExtractionOnTrueTimestamps ==
    /\ charts # <<>> => ppc \in {"render", "done"}
    /\ ppc \in {"window", "render", "done"} =>
         /\ \A i \in DOMAIN sdf : sdf[i] = raw[sdf[i].pos]
         /\ \A n \in DOMAIN RowNames : \A i \in DOMAIN ev[n] :
               ev[n][i] = raw[ev[n][i].pos]
         /\ preheats = Extracted(ev).preheats
         /\ runs = Extracted(ev).runs

\* C13: the extraction is over, on the timestamps of the file, before
\* anything is remapped, and a pass of the chart loop changes neither the
\* frame nor the Preheat and Run lists.
C13_RemapLeavesExtraction ==
    /\ []ExtractionOnTrueTimestamps
    /\ [][ppc = "render" => UNCHANGED <<sdf, ev, preheats, runs>>]_vars

\* C13 witness: all charts are drawn; a Run was drawn at end points other
\* than those the list still holds for it.
C13_Witness ==
    /\ ppc = "done"
    /\ \E c \in DOMAIN charts :
          LET n == NameIndex(charts[c].name)
              R == OfUnit(runs, n)
          IN  /\ Len(R) >= 1
              /\ Len(charts[c].runs) = Len(R)
              /\ charts[c].runs[1][1] # R[1][2]
              /\ charts[c].runs[1][2] # R[1][3]
              /\ \E i \in DOMAIN charts[c].timestamp :
                    charts[c].timestamp[i] # GroupOf(sdf, n)[i].timestamp

====
